---- MODULE Spec2Model ----
(***************************************************************************)
(* Relocation OS: the currency conversion service (currency_service.py),   *)
(* the expense store and the budget aggregator (expense_operations.py,     *)
(* models.py), the profile, phase and task stores (database.py,            *)
(* phase_operations.py, task_operations.py) and the menu and web handlers  *)
(* that call them (menu.py, web/app.py), as a state machine.               *)
(*                                                                         *)
(* SQLite is used without PRAGMA foreign_keys, so a foreign key column     *)
(* holds whatever integer is stored in it; rows are deleted along the      *)
(* ORM's cascades only.                                                    *)
(*                                                                         *)
(* Conventions.  An optional value (Python None or a value) is a sequence  *)
(* of length 0 or 1: None == <<>>, Some(x) == <<x>>.  A float that the     *)
(* code obtains as n / 100 from an integer number of cents n is the        *)
(* fraction [num |-> n, den |-> 100]; fractions are compared by            *)
(* cross-multiplication (binary rounding of the floats is not modelled).   *)
(* A rate in the API's response is a decimal numeral <<m, d>> standing for *)
(* m / 10^d.                                                               *)
(***************************************************************************)
EXTENDS Integers, Sequences, FiniteSets, TLC

VARIABLES
    today,          \* date.today(), a day number
    rate_cache,     \* currency_service._rate_cache : cache key -> rate
    cache_date,     \* currency_service._cache_date : optional day
    fetched_on,     \* history: cache key -> day of the key's latest successful fetch
    prior,          \* history: cache key -> result of the latest lookup of the
                    \*   key made today since the last clear_cache
    cleared,        \* history: clear_cache ran and no lookup of a pair A != B since
    calls,          \* thread -> the position and the locals of the thread's
                    \*   call of get_exchange_rate
    expenses,       \* the expenses table : id -> row
    profiles,       \* the relocation_profiles table : id -> row
    phases,         \* the relocation_phases table : id -> row
    tasks,          \* the tasks table : id -> row
    last            \* the latest call: its arguments, what it returned, what it did

cur_vars == <<rate_cache, cache_date, fetched_on, prior, cleared, calls>>
plan_vars == <<profiles, phases, tasks>>
store_vars == <<expenses, profiles, phases, tasks>>
vars == <<today, rate_cache, cache_date, fetched_on, prior, cleared, calls,
          expenses, profiles, phases, tasks, last>>

None == <<>>
Some(x) == <<x>>
EmptyMap == [k \in {} |-> None]

(***************************************************************************)
(* Bounds of the model.                                                    *)
(***************************************************************************)
MaxDay == 2
MaxExpenses == 2
MaxRows == 2

Currencies == {"USD", "EUR"}
\* The threads that may be inside get_exchange_rate at the same time
Threads == {"t1", "t2"}
\* A thread that is not inside get_exchange_rate
NoCall == [pc |-> "idle", key |-> "", had_entry |-> FALSE, resp |-> None,
           wrote |-> FALSE, result |-> None]
\* Rates the API may answer: 0.92, 1.25009 (truncated to 12500 by the service)
ApiRates == {<<92, 2>>, <<125009, 5>>}
FailureKinds == {"network_error", "timeout", "malformed_response", "missing_key"}
Responses == {[kind |-> "ok", rate |-> r] : r \in ApiRates}
             \cup {[kind |-> k, rate |-> <<0, 0>>] : k \in FailureKinds}
AmountsCents == {-1, 10000}
ProfileIds == {1, 2}
EstimatedAmounts == {5000}
RefundAmounts == {-5000}
ActualAmounts == {None, Some(0), Some(6000)}
PaymentStatuses == {"unpaid", "paid"}
\* Due dates from the day before the first day of the calendar
DueDates == 0..(MaxDay - 1)
\* 0.92 as the service stores it
StoredRates == {9200}
ProfileNames == {"Lisbon"}
TaskStatuses == {"not_started", "in_progress", "completed"}
\* Months relative to the arrival month
Months == {0, 1}

(***************************************************************************)
(* Program constants.                                                      *)
(***************************************************************************)
ParityRate == 10000
RateScale == 10000
CentsPerUnit == 100

(***************************************************************************)
(* Arithmetic helpers.                                                     *)
(***************************************************************************)
RECURSIVE Pow10(_)
Pow10(n) == IF n = 0 THEN 1 ELSE 10 * Pow10(n - 1)

\* Python's int(x) on a float: truncation toward zero, here of a / b with b > 0
TruncDiv(a, b) == IF a >= 0 THEN a \div b ELSE -((-a) \div b)

\* Python's // on integers: floor division
FloorDiv(a, b) == a \div b

(***************************************************************************)
(* currency_service.get_exchange_rate                                      *)
(***************************************************************************)
cache_key(from, to) == from \o "_" \o to

\* Mutant: the date stamp is compared with the wrong day.
CacheHit_WrongDay(key) == cache_date = Some(today + 1) /\ key \in DOMAIN rate_cache

\* `_cache_date == today and cache_key in _rate_cache`
CacheHit(key) == cache_date = Some(today) /\ key \in DOMAIN rate_cache

\* `rate_cents = int(rate_float * 10000)` for rate_float = m / 10^d
RateToCents(r) == TruncDiv(r[1] * RateScale, Pow10(r[2]))

\* Mutant: a rate already in the cache is kept (the first writer wins).
FetchOk_KeepsFirst(key, resp) ==
    LET rate_cents == RateToCents(resp.rate)
    IN  [rate |-> Some(rate_cents), net |-> TRUE, raised |-> FALSE,
         cache |-> rate_cache @@ (key :> rate_cents),
         cdate |-> Some(today), stored |-> TRUE]

\* The try block from the request to `return rate_cents`, given a response
\* that carries a numeric rate.  Every failure the except clause catches
\* (urlopen, json.loads, the lookups data['rates'][to_currency], rate_float *
\* 10000, int(...)) happens before the two assignments to the cache; int() of
\* a string of digits repeated 10000 times raises ValueError by the
\* interpreter's default limit on integer string conversion.
FetchOk(key, resp) ==
    LET rate_cents == RateToCents(resp.rate)
    IN  [rate |-> Some(rate_cents), net |-> TRUE, raised |-> FALSE,
         cache |-> (key :> rate_cents) @@ rate_cache,
         cdate |-> Some(today), stored |-> TRUE]

\* Mutant: a failed fetch drops the pair's cached rate.
FetchFailed_DropsEntry(key, resp) ==
    [rate |-> None, net |-> TRUE, raised |-> FALSE,
     cache |-> [k \in DOMAIN rate_cache \ {key} |-> rate_cache[k]],
     cdate |-> cache_date, stored |-> FALSE]

\* `except Exception as e: ... return None`
FetchFailed(key, resp) ==
    [rate |-> None, net |-> TRUE, raised |-> FALSE,
     cache |-> rate_cache, cdate |-> cache_date, stored |-> FALSE]

\* Mutant: the same-currency shortcut stamps the cache with today's date.
SameCurrency_StampsDate(from, to) ==
    [rate |-> Some(ParityRate), net |-> FALSE, raised |-> FALSE,
     cache |-> rate_cache, cdate |-> Some(today), stored |-> FALSE]

\* `if from_currency == to_currency: return 10000`
SameCurrency(from, to) ==
    [rate |-> Some(ParityRate), net |-> FALSE, raised |-> FALSE,
     cache |-> rate_cache, cdate |-> cache_date, stored |-> FALSE]

\* The outcome of get_exchange_rate(from, to) when the network answers resp
\* (resp is read only on a cache miss).
get_exchange_rate(from, to, resp) ==
    LET key == cache_key(from, to)
    IN  IF from = to THEN SameCurrency(from, to)
        ELSE IF CacheHit(key)
             THEN [rate |-> Some(rate_cache[key]), net |-> FALSE, raised |-> FALSE,
                   cache |-> rate_cache, cdate |-> cache_date, stored |-> FALSE]
        ELSE IF resp.kind = "ok" THEN FetchOk(key, resp)
        ELSE FetchFailed(key, resp)

\* What the call leaves in the module's globals, and the history of lookups.
LookupEffects(from, to, out) ==
    LET key == cache_key(from, to)
    IN  /\ rate_cache' = out.cache
        /\ cache_date' = out.cdate
        /\ fetched_on' = IF out.stored THEN (key :> today) @@ fetched_on
                         ELSE fetched_on
        /\ prior' = IF from = to THEN prior ELSE (key :> out.rate) @@ prior
        /\ cleared' = IF from = to THEN cleared ELSE FALSE
        /\ UNCHANGED calls

\* The record of a lookup kept in `last`.
LookupRecord(from, to, resp, out) ==
    LET key == cache_key(from, to)
    IN  [from |-> from, to |-> to, day |-> today,
         rate |-> out.rate, net |-> out.net, raised |-> out.raised,
         failure |-> IF out.net /\ resp.kind # "ok" THEN resp.kind ELSE "",
         fetched_before |-> IF from # to /\ key \in DOMAIN fetched_on
                            THEN Some(fetched_on[key]) ELSE None,
         cached_before |-> from # to /\ key \in DOMAIN rate_cache,
         had_prior |-> from # to /\ key \in DOMAIN prior,
         prior_rate |-> IF from # to /\ key \in DOMAIN prior THEN prior[key] ELSE None,
         after_clear |-> cleared]

GetExchangeRate ==
    \E from \in Currencies, to \in Currencies, resp \in Responses :
        LET out == get_exchange_rate(from, to, resp)
        IN  /\ LookupEffects(from, to, out)
            /\ last' = [op |-> "get_exchange_rate",
                        lookup |-> LookupRecord(from, to, resp, out)]
            /\ UNCHANGED <<today, store_vars>>

(***************************************************************************)
(* currency_service.convert_amount                                         *)
(***************************************************************************)
\* Mutant: an unavailable rate converts to nothing.
converted_ZeroWhenUnavailable(amount_cents, rate) ==
    IF rate = None THEN 0
    ELSE FloorDiv(amount_cents * rate[1], RateScale)

\* Mutant: the quotient is truncated toward zero (int(a * r / 10000)).
converted_Truncates(amount_cents, rate) ==
    IF rate = None THEN amount_cents
    ELSE TruncDiv(amount_cents * rate[1], RateScale)

\* `if rate is None: return amount_cents` / `(amount_cents * rate) // 10000`
converted(amount_cents, rate) ==
    IF rate = None THEN amount_cents
    ELSE FloorDiv(amount_cents * rate[1], RateScale)

ConvertAmount ==
    \E amount_cents \in AmountsCents, from \in Currencies, to \in Currencies,
       resp \in Responses :
        LET out == get_exchange_rate(from, to, resp)
        IN  /\ LookupEffects(from, to, out)
            /\ last' = [op |-> "convert_amount",
                        lookup |-> LookupRecord(from, to, resp, out),
                        amount |-> amount_cents,
                        result |-> converted(amount_cents, out.rate)]
            /\ UNCHANGED <<today, store_vars>>

(***************************************************************************)
(* currency_service.clear_cache                                            *)
(***************************************************************************)
\* Mutant: without the `global` statement the assignments bind locals.
clear_cache_Local == UNCHANGED <<rate_cache, cache_date>>

\* `_rate_cache = {}` / `_cache_date = None`
clear_cache ==
    /\ rate_cache' = EmptyMap
    /\ cache_date' = None

ClearCache ==
    /\ clear_cache
    /\ prior' = EmptyMap
    /\ cleared' = TRUE
    /\ last' = [op |-> "clear_cache"]
    /\ UNCHANGED <<today, fetched_on, calls, store_vars>>

(***************************************************************************)
(* The calendar: date.today() moves to the next day.                       *)
(***************************************************************************)
Tick ==
    /\ today < MaxDay
    /\ today' = today + 1
    /\ prior' = EmptyMap
    /\ UNCHANGED <<rate_cache, cache_date, fetched_on, cleared, calls,
                   store_vars, last>>

Init ==
    /\ today = 1
    /\ rate_cache = EmptyMap
    /\ cache_date = None
    /\ fetched_on = EmptyMap
    /\ prior = EmptyMap
    /\ cleared = FALSE
    /\ calls = [t \in Threads |-> NoCall]
    /\ expenses = EmptyMap
    /\ profiles = EmptyMap
    /\ phases = EmptyMap
    /\ tasks = EmptyMap
    /\ last = [op |-> "none"]

CurrencyNext ==
    \/ GetExchangeRate
    \/ ConvertAmount
    \/ ClearCache
    \/ Tick

CurrencySpec == Init /\ [][CurrencyNext]_vars

IsLookup == last.op \in {"get_exchange_rate", "convert_amount"}

(***************************************************************************)
(* currency_service.get_manual_exchange_rate, and the prompt of            *)
(* menu_create_expense that calls it.  What is typed is a sequence of      *)
(* characters; float() is modelled on unsigned decimal numerals (digits    *)
(* with at most one point), the other spellings it accepts (a sign, an     *)
(* exponent, inf, nan) not being among the inputs.                         *)
(***************************************************************************)
TypedInputs ==
    {<<>>, <<" ">>, <<"0", ".", "9", "2">>, <<"2">>,
     <<"1", ".", "2", "5", "0", "0", "9">>, <<"a", "b", "c">>,
     <<"1", ",", "5">>, <<"0", ".", "9", ".", "2">>}

DecimalDigits == <<"0", "1", "2", "3", "4", "5", "6", "7", "8", "9">>

\* str.strip() of surrounding blanks
strip(text) ==
    LET inked == {i \in DOMAIN text : text[i] # " "}
    IN  IF inked = {} THEN <<>>
        ELSE SubSeq(text, CHOOSE i \in inked : \A j \in inked : i <= j,
                          CHOOSE i \in inked : \A j \in inked : j <= i)

RECURSIVE NumeralValue(_)
\* The number a sequence of digits spells
NumeralValue(digits) ==
    IF digits = <<>> THEN 0
    ELSE 10 * NumeralValue(SubSeq(digits, 1, Len(digits) - 1))
         + (CHOOSE i \in 1..10 : DecimalDigits[i] = digits[Len(digits)]) - 1

\* float(text): the numeral <<m, d>> standing for m / 10^d, or None when
\* float raises ValueError
float(text) ==
    LET points == {i \in DOMAIN text : text[i] = "."}
        digits == SelectSeq(text, LAMBDA c : c # ".")
    IN  IF /\ digits # <<>>
           /\ Cardinality(points) <= 1
           /\ \A i \in DOMAIN digits :
                \E k \in 1..10 : DecimalDigits[k] = digits[i]
        THEN Some(<<NumeralValue(digits),
                    IF points = {} THEN 0
                    ELSE Len(text) - (CHOOSE i \in points : TRUE)>>)
        ELSE None

\* get_manual_exchange_rate(): what it returns and what it prints, given
\* what is typed at the prompt
get_manual_exchange_rate(typed) ==
    LET rate_input == strip(typed)
    IN  IF rate_input = <<>> THEN [returned |-> None, printed |-> ""]
        ELSE IF float(rate_input) = None
             THEN [returned |-> None, printed |-> "Invalid rate format"]
        ELSE [returned |-> Some(RateToCents(float(rate_input)[1])),
              printed |-> ""]

\* menu_create_expense, "Get exchange rate if different currency": the
\* lookup, and the manual entry when the lookup returned None
EnterExchangeRate ==
    \E from \in Currencies, to \in Currencies, resp \in Responses,
       typed \in TypedInputs :
        LET out == get_exchange_rate(from, to, resp)
            manual == get_manual_exchange_rate(typed)
        IN  /\ from # to
            /\ LookupEffects(from, to, out)
            /\ last' = IF out.rate = None
                       THEN [op |-> "enter_exchange_rate", asked |-> TRUE,
                             typed |-> typed, returned |-> manual.returned,
                             printed |-> manual.printed,
                             exchange_rate |-> manual.returned]
                       ELSE [op |-> "enter_exchange_rate", asked |-> FALSE,
                             typed |-> <<>>, returned |-> None,
                             printed |-> "", exchange_rate |-> out.rate]
            /\ UNCHANGED <<today, store_vars>>

ManualNext ==
    \/ EnterExchangeRate
    \/ ClearCache
    \/ Tick

ManualSpec == Init /\ [][ManualNext]_vars

(***************************************************************************)
(* get_exchange_rate called by two threads on one day.  The module's       *)
(* globals are read and written with no lock, so a thread may be preempted *)
(* between any two of its accesses: the read of _cache_date and the read   *)
(* of _rate_cache in line 42, the read in line 44, the request, the write  *)
(* of line 70 and the write of line 71 are separate steps.  Each access is *)
(* atomic (one dictionary or global operation under the interpreter lock). *)
(* `last` records the latest write of line 70.                             *)
(***************************************************************************)
\* The thread enters get_exchange_rate(from, to) with from != to
Call(t) ==
    \E from \in Currencies, to \in Currencies :
        /\ from # to
        /\ calls[t].pc \in {"idle", "done"}
        /\ calls' = [calls EXCEPT ![t] =
                        [pc |-> "check_date", key |-> cache_key(from, to),
                         had_entry |-> cache_key(from, to) \in DOMAIN rate_cache,
                         resp |-> None, wrote |-> FALSE, result |-> None]]
        /\ UNCHANGED <<today, rate_cache, cache_date, fetched_on, prior,
                       cleared, store_vars, last>>

\* line 42, `_cache_date == today`
CheckDate(t) ==
    /\ calls[t].pc = "check_date"
    /\ calls' = [calls EXCEPT ![t].pc =
                    IF cache_date = Some(today) THEN "check_key" ELSE "fetch"]
    /\ UNCHANGED <<today, rate_cache, cache_date, fetched_on, prior,
                   cleared, store_vars, last>>

\* line 42, `cache_key in _rate_cache`
CheckKey(t) ==
    /\ calls[t].pc = "check_key"
    /\ calls' = [calls EXCEPT ![t].pc =
                    IF calls[t].key \in DOMAIN rate_cache THEN "read_hit"
                    ELSE "fetch"]
    /\ UNCHANGED <<today, rate_cache, cache_date, fetched_on, prior,
                   cleared, store_vars, last>>

\* line 44, `return _rate_cache[cache_key]`
ReadHit(t) ==
    /\ calls[t].pc = "read_hit"
    /\ calls' = [calls EXCEPT ![t].pc = "done",
                              ![t].result = Some(rate_cache[calls[t].key])]
    /\ UNCHANGED <<today, rate_cache, cache_date, fetched_on, prior,
                   cleared, store_vars, last>>

\* lines 47-67: the request and its answer; any failure returns None
Fetch(t) ==
    \E resp \in Responses :
        /\ calls[t].pc = "fetch"
        /\ calls' = [calls EXCEPT ![t] =
                        IF resp.kind = "ok"
                        THEN [@ EXCEPT !.pc = "store", !.resp = Some(resp)]
                        ELSE [@ EXCEPT !.pc = "done"]]
        /\ UNCHANGED <<today, rate_cache, cache_date, fetched_on, prior,
                       cleared, store_vars, last>>

\* line 70, `_rate_cache[cache_key] = rate_cents`
StoreRate(t) ==
    /\ calls[t].pc = "store"
    /\ rate_cache' = FetchOk(calls[t].key, calls[t].resp[1]).cache
    /\ calls' = [calls EXCEPT ![t].pc = "stamp", ![t].wrote = TRUE]
    /\ last' = [op |-> "store_rate", thread |-> t, key |-> calls[t].key,
                rate |-> RateToCents(calls[t].resp[1].rate)]
    /\ UNCHANGED <<today, cache_date, fetched_on, prior, cleared, store_vars>>

\* lines 71-75, `_cache_date = today` and `return rate_cents`
StampDate(t) ==
    /\ calls[t].pc = "stamp"
    /\ cache_date' = FetchOk(calls[t].key, calls[t].resp[1]).cdate
    /\ calls' = [calls EXCEPT ![t].pc = "done",
                              ![t].result = Some(RateToCents(calls[t].resp[1].rate))]
    /\ UNCHANGED <<today, rate_cache, fetched_on, prior, cleared,
                   store_vars, last>>

ConcurrentNext ==
    \E t \in Threads :
        \/ Call(t)
        \/ CheckDate(t)
        \/ CheckKey(t)
        \/ ReadHit(t)
        \/ Fetch(t)
        \/ StoreRate(t)
        \/ StampDate(t)

ConcurrentSpec == Init /\ [][ConcurrentNext]_vars

(***************************************************************************)
(* Fractions: the floats the aggregator computes from integer cents.       *)
(***************************************************************************)
Abs(n) == IF n < 0 THEN -n ELSE n

RECURSIVE GCD(_, _)
GCD(a, b) == IF b = 0 THEN a ELSE GCD(b, a % b)

\* n / d in lowest terms with a positive denominator (d # 0)
Frac(n, d) ==
    LET g == GCD(Abs(n), Abs(d))
        s == IF d < 0 THEN -1 ELSE 1
    IN  [num |-> (s * n) \div g, den |-> (s * d) \div g]

FracZero == Frac(0, 1)
FracSub(a, b) == Frac(a.num * b.den - b.num * a.den, a.den * b.den)
FracTimes(a, n) == Frac(a.num * n, a.den)
FracPositive(a) == a.num > 0
\* a / b; Python raises ZeroDivisionError when b is 0.0
FracDiv(a, b) ==
    IF b.num = 0 THEN [raised |-> TRUE, value |-> FracZero]
    ELSE [raised |-> FALSE, value |-> Frac(a.num * b.den, a.den * b.num)]

RECURSIVE SumOver(_, _)
\* sum(f[i] for i in S)
SumOver(S, f) ==
    IF S = {} THEN 0
    ELSE LET i == CHOOSE j \in S : TRUE IN f[i] + SumOver(S \ {i}, f)

(***************************************************************************)
(* models.Expense: the computed properties of a row.                       *)
(***************************************************************************)
\* Python truth of an optional integer: None and 0 are false
IntTruthy(opt) == opt # None /\ opt[1] # 0
\* Python truth of an optional string: None and "" are false
StrTruthy(opt) == opt # None /\ opt[1] # ""

\* Expense.total_primary_currency
total_primary_currency(e) ==
    LET amount == IF IntTruthy(e.actual_amount)
                  THEN e.actual_amount[1] ELSE e.estimated_amount
    IN  IF IntTruthy(e.exchange_rate)
        THEN Frac(amount * e.exchange_rate[1], RateScale)
        ELSE Frac(amount, CentsPerUnit)

\* Mutant: the difference is taken the other way round.
variance_Reversed(e) ==
    IF e.actual_amount = None THEN None
    ELSE Some(Frac(e.estimated_amount - e.actual_amount[1], CentsPerUnit))

\* Expense.variance
variance(e) ==
    IF e.actual_amount = None THEN None
    ELSE Some(Frac(e.actual_amount[1] - e.estimated_amount, CentsPerUnit))

\* Mutant: an expense counts as overdue on its due date.
is_overdue_OnDueDate(e) ==
    IF e.due_date = None \/ e.payment_status = "paid" THEN FALSE
    ELSE today >= e.due_date[1]

\* Expense.is_overdue
is_overdue(e) ==
    IF e.due_date = None \/ e.payment_status = "paid" THEN FALSE
    ELSE today > e.due_date[1]

(***************************************************************************)
(* expense_operations: the expense store.                                  *)
(***************************************************************************)
\* The rows create_expense is called with: costs of either profile, and a
\* refund (a negative estimate) of profile 1
ExpenseInputs ==
    [relocation_profile_id : ProfileIds, phase_id : {1},
     estimated_amount : EstimatedAmounts, actual_amount : ActualAmounts,
     exchange_rate : {None}, cost_certainty : {"estimated"},
     payment_status : PaymentStatuses, include_in_budget : BOOLEAN,
     due_date : {None}, related_task_id : {None}]
    \cup
    [relocation_profile_id : {1}, phase_id : {1},
     estimated_amount : RefundAmounts, actual_amount : {None},
     exchange_rate : {None}, cost_certainty : {"estimated"},
     payment_status : PaymentStatuses, include_in_budget : {TRUE},
     due_date : {None}, related_task_id : {None}]

\* The id SQLite gives an INTEGER PRIMARY KEY row: the largest rowid plus one
NewId(table) ==
    IF DOMAIN table = {} THEN 1
    ELSE (CHOOSE m \in DOMAIN table : \A k \in DOMAIN table : k <= m) + 1

\* session.query(...).filter_by(id=id).first(): the row, or None
first(table, id) == IF id \in DOMAIN table THEN Some(table[id]) ELSE None

\* What an update returns: `return None` when first() found no row, and the
\* row read back by get-by-id after the commit otherwise
update_returns(table, next, id) ==
    IF id \in DOMAIN table THEN first(next, id) ELSE None

\* Mutant: True is returned whether or not a row was found.
delete_returns_True(table, id) == TRUE

\* What a delete returns: `return False` when first() found no row, `return
\* True` after the commit otherwise
delete_returns(table, id) == id \in DOMAIN table

\* create_expense: session.add(expense); session.commit()
create_expense(row) == expenses' = (NewId(expenses) :> row) @@ expenses

\* create_expense called with one of the given rows
CreateExpenseFrom(rows) ==
    \E row \in rows :
        /\ NewId(expenses) <= MaxExpenses
        /\ create_expense(row)
        /\ last' = [op |-> "create_expense", id |-> NewId(expenses)]
        /\ UNCHANGED <<today, cur_vars, plan_vars>>

CreateExpense == CreateExpenseFrom(ExpenseInputs)

\* get_all_expenses: the rows the query selects (each filter is applied only
\* when its argument is true in Python's sense); the ORDER BY is not modelled
get_all_expenses(relocation_profile_id, phase_id, payment_status, cost_certainty) ==
    {id \in DOMAIN expenses :
        /\ IntTruthy(relocation_profile_id)
            => expenses[id].relocation_profile_id = relocation_profile_id[1]
        /\ IntTruthy(phase_id) => expenses[id].phase_id = phase_id[1]
        /\ StrTruthy(payment_status)
            => expenses[id].payment_status = payment_status[1]
        /\ StrTruthy(cost_certainty)
            => expenses[id].cost_certainty = cost_certainty[1]}

\* get_expense_by_id
get_expense_by_id(expense_id) == first(expenses, expense_id)

GetExpenseById ==
    \E expense_id \in 1..MaxExpenses :
        /\ last' = [op |-> "get_expense_by_id", id |-> expense_id,
                    found |-> expense_id \in DOMAIN expenses,
                    raised |-> FALSE,
                    result |-> get_expense_by_id(expense_id)]
        /\ UNCHANGED <<today, cur_vars, store_vars>>

\* Expense columns a keyword of update_expense may name
ExpenseColumns ==
    {"relocation_profile_id", "phase_id", "estimated_amount", "actual_amount",
     "exchange_rate", "cost_certainty", "payment_status", "include_in_budget",
     "due_date", "related_task_id"}

\* Expense's read-only properties: hasattr is true and setattr raises
ExpenseProperties == {"total_primary_currency", "variance", "is_overdue"}

\* Mutant: only the first pair is applied.
ApplyPairs_FirstPairOnly(row, kwargs) ==
    [raised |-> FALSE,
     row |-> IF kwargs # <<>> /\ Head(kwargs)[1] \in ExpenseColumns
             THEN [row EXCEPT ![Head(kwargs)[1]] = Head(kwargs)[2]] ELSE row]

RECURSIVE ApplyPairs(_, _)
\* `for key, value in kwargs.items(): if hasattr(...): setattr(...)`:
\* the row the loop leaves in the session, or the AttributeError it raises
ApplyPairs(row, kwargs) ==
    IF kwargs = <<>> THEN [raised |-> FALSE, row |-> row]
    ELSE LET key == Head(kwargs)[1]
             value == Head(kwargs)[2]
         IN  IF key \in ExpenseProperties THEN [raised |-> TRUE, row |-> row]
             ELSE ApplyPairs(IF key \in ExpenseColumns
                             THEN [row EXCEPT ![key] = value] ELSE row,
                             Tail(kwargs))

\* Mutant: the AttributeError is swallowed and what was set is committed.
update_raises_Never(expense_id, kwargs) == FALSE

\* Whether update_expense(expense_id, **kwargs) raises
update_raises(expense_id, kwargs) ==
    /\ expense_id \in DOMAIN expenses
    /\ ApplyPairs(expenses[expense_id], kwargs).raised

\* update_expense(expense_id, **kwargs): `return None` for a missing row,
\* session.rollback() when the loop raised, session.commit() otherwise
update_expense(expense_id, kwargs) ==
    IF expense_id \in DOMAIN expenses /\ ~update_raises(expense_id, kwargs)
    THEN expenses' = [expenses EXCEPT
                        ![expense_id] = ApplyPairs(@, kwargs).row]
    ELSE UNCHANGED expenses

\* The keyword sets update_expense is called with
UpdateInputs ==
    {<<<<"actual_amount", Some(6000)>>, <<"payment_status", "paid">>>>,
     <<<<"colour", "red">>, <<"include_in_budget", FALSE>>>>}

\* update_expense called with one of the given keyword sets
UpdateExpenseFrom(inputs) ==
    \E expense_id \in 1..MaxExpenses, kwargs \in inputs :
        /\ update_expense(expense_id, kwargs)
        /\ last' = [op |-> "update_expense", id |-> expense_id,
                    kwargs |-> kwargs,
                    found |-> expense_id \in DOMAIN expenses,
                    raised |-> update_raises(expense_id, kwargs),
                    result |-> IF update_raises(expense_id, kwargs) THEN None
                               ELSE update_returns(expenses, expenses',
                                                   expense_id)]
        /\ UNCHANGED <<today, cur_vars, plan_vars>>

UpdateExpense == UpdateExpenseFrom(UpdateInputs)

\* mark_expense_paid(expense_id)
MarkExpensePaid ==
    \E expense_id \in 1..MaxExpenses :
        /\ update_expense(expense_id, <<<<"payment_status", "paid">>>>)
        /\ last' = [op |-> "mark_expense_paid", id |-> expense_id,
                    day |-> today,
                    found |-> expense_id \in DOMAIN expenses,
                    raised |-> FALSE,
                    result |-> update_returns(expenses, expenses', expense_id)]
        /\ UNCHANGED <<today, cur_vars, plan_vars>>

\* delete_expense(expense_id)
delete_expense(expense_id) ==
    expenses' = [id \in DOMAIN expenses \ {expense_id} |-> expenses[id]]

DeleteExpense ==
    \E expense_id \in 1..MaxExpenses :
        /\ delete_expense(expense_id)
        /\ last' = [op |-> "delete_expense", id |-> expense_id,
                    found |-> expense_id \in DOMAIN expenses,
                    raised |-> FALSE,
                    returned |-> delete_returns(expenses, expense_id)]
        /\ UNCHANGED <<today, cur_vars, plan_vars>>

(***************************************************************************)
(* expense_operations.get_budget_summary                                   *)
(***************************************************************************)
\* Mutant: a paid expense counts for its estimate on top of what was paid.
PaidAmount_AddsEstimate(e) ==
    e.estimated_amount
    + (IF IntTruthy(e.actual_amount) THEN e.actual_amount[1] ELSE e.estimated_amount)

\* `e.actual_amount if e.actual_amount else e.estimated_amount`
PaidAmount(e) ==
    IF IntTruthy(e.actual_amount) THEN e.actual_amount[1] ELSE e.estimated_amount

\* Mutant: the profile filter is not passed on.
SummaryExpenses_AllProfiles(relocation_profile_id) ==
    get_all_expenses(None, None, None, None)

\* `expenses = get_all_expenses(relocation_profile_id=relocation_profile_id)`
SummaryExpenses(relocation_profile_id) ==
    get_all_expenses(Some(relocation_profile_id), None, None, None)

\* Mutant: the guard lets a total of 0 through.
ProgressDefined_NonNegative(total_estimated) == total_estimated.num >= 0

\* `if total_estimated > 0`
ProgressDefined(total_estimated) == FracPositive(total_estimated)

\* `(total_paid / total_estimated * 100) if total_estimated > 0 else 0`
budget_progress_pct(total_paid, total_estimated) ==
    IF ProgressDefined(total_estimated)
    THEN LET q == FracDiv(total_paid, total_estimated)
         IN  [raised |-> q.raised, value |-> FracTimes(q.value, 100)]
    ELSE [raised |-> FALSE, value |-> FracZero]

get_budget_summary(relocation_profile_id) ==
    LET budget_expenses ==
            {id \in SummaryExpenses(relocation_profile_id) :
                expenses[id].include_in_budget}
        paid == {id \in budget_expenses : expenses[id].payment_status = "paid"}
        total_estimated ==
            Frac(SumOver(budget_expenses,
                         [id \in budget_expenses |-> expenses[id].estimated_amount]),
                 CentsPerUnit)
        with_actual == {id \in budget_expenses : IntTruthy(expenses[id].actual_amount)}
        total_actual ==
            Frac(SumOver(with_actual,
                         [id \in with_actual |-> expenses[id].actual_amount[1]]),
                 CentsPerUnit)
        total_paid ==
            Frac(SumOver(paid, [id \in paid |-> PaidAmount(expenses[id])]),
                 CentsPerUnit)
        progress == budget_progress_pct(total_paid, total_estimated)
    IN  [raised |-> progress.raised,
         total_estimated |-> total_estimated,
         total_actual |-> total_actual,
         total_paid |-> total_paid,
         remaining |-> FracSub(total_estimated, total_paid),
         budget_progress_pct |-> progress.value,
         overdue_count |->
            Cardinality({id \in budget_expenses : is_overdue(expenses[id])}),
         unknown_count |->
            Cardinality({id \in budget_expenses :
                            expenses[id].cost_certainty = "unknown"}),
         over_budget_count |->
            Cardinality({id \in budget_expenses :
                            /\ variance(expenses[id]) # None
                            /\ variance(expenses[id])[1].num > 0}),
         total_expenses |-> Cardinality(budget_expenses)]

\* Both callers pass the id of a profile that get_profile_by_id has found
GetBudgetSummary ==
    \E relocation_profile_id \in ProfileIds :
        /\ last' = [op |-> "get_budget_summary", id |-> relocation_profile_id,
                    day |-> today,
                    summary |-> get_budget_summary(relocation_profile_id)]
        /\ UNCHANGED <<today, cur_vars, store_vars>>

BudgetNext ==
    \/ CreateExpense
    \/ UpdateExpense
    \/ MarkExpensePaid
    \/ DeleteExpense
    \/ GetBudgetSummary

BudgetSpec == Init /\ [][BudgetNext]_vars

(***************************************************************************)
(* The ledger: expenses with due dates, exchange rates and actual amounts  *)
(* on either side of the estimate, read on successive days.                *)
(***************************************************************************)
\* The rows create_expense is called with: amounts around the estimate, a
\* refund received as 0, due dates with either payment status, rated amounts
LedgerInputs ==
    [relocation_profile_id : {1}, phase_id : {1},
     estimated_amount : EstimatedAmounts,
     actual_amount : ActualAmounts \cup {Some(a) : a \in EstimatedAmounts},
     exchange_rate : {None}, cost_certainty : {"estimated"},
     payment_status : {"unpaid"}, include_in_budget : {TRUE},
     due_date : {None}, related_task_id : {None}]
    \cup
    [relocation_profile_id : {1}, phase_id : {1},
     estimated_amount : RefundAmounts, actual_amount : {Some(0)},
     exchange_rate : {None}, cost_certainty : {"estimated"},
     payment_status : {"unpaid"}, include_in_budget : {TRUE},
     due_date : {None}, related_task_id : {None}]
    \cup
    [relocation_profile_id : {1}, phase_id : {1},
     estimated_amount : EstimatedAmounts, actual_amount : {None},
     exchange_rate : {None}, cost_certainty : {"estimated"},
     payment_status : PaymentStatuses, include_in_budget : BOOLEAN,
     due_date : {None} \cup {Some(d) : d \in DueDates},
     related_task_id : {None}]
    \cup
    [relocation_profile_id : {1}, phase_id : {1},
     estimated_amount : EstimatedAmounts, actual_amount : ActualAmounts,
     exchange_rate : {Some(r) : r \in StoredRates},
     cost_certainty : {"estimated"},
     payment_status : {"unpaid"}, include_in_budget : {TRUE},
     due_date : {None}, related_task_id : {None}]

CreateLedgerExpense == CreateExpenseFrom(LedgerInputs)

LedgerNext ==
    \/ CreateLedgerExpense
    \/ MarkExpensePaid
    \/ DeleteExpense
    \/ GetBudgetSummary
    \/ Tick

LedgerSpec == Init /\ [][LedgerNext]_vars

(***************************************************************************)
(* database.py: the profile store.                                         *)
(***************************************************************************)
\* An id a caller may pass: those the tables can hold, found or not
RowIds == 1..MaxRows

\* delete from a table the rows whose ids are in gone
Remove(table, gone) == [id \in DOMAIN table \ gone |-> table[id]]

RECURSIVE SetAttrs(_, _)
\* `for key, value in kwargs.items(): if hasattr(row, key): setattr(...)`
\* for a class without read-only properties (a profile, a phase, a task)
SetAttrs(row, kwargs) ==
    IF kwargs = <<>> THEN row
    ELSE LET key == Head(kwargs)[1]
             value == Head(kwargs)[2]
         IN  SetAttrs(IF key \in DOMAIN row
                      THEN [row EXCEPT ![key] = value] ELSE row,
                      Tail(kwargs))

\* create_relocation_profile
create_relocation_profile(relocation_name) ==
    profiles' = (NewId(profiles) :> [relocation_name |-> relocation_name])
                    @@ profiles

CreateProfile ==
    \E relocation_name \in ProfileNames :
        /\ NewId(profiles) <= MaxRows
        /\ create_relocation_profile(relocation_name)
        /\ last' = [op |-> "create_relocation_profile", id |-> NewId(profiles)]
        /\ UNCHANGED <<today, cur_vars, expenses, phases, tasks>>

\* get_profile_by_id
get_profile_by_id(profile_id) == first(profiles, profile_id)

GetProfileById ==
    \E profile_id \in RowIds :
        /\ last' = [op |-> "get_profile_by_id", id |-> profile_id,
                    found |-> profile_id \in DOMAIN profiles,
                    raised |-> FALSE,
                    result |-> get_profile_by_id(profile_id)]
        /\ UNCHANGED <<today, cur_vars, store_vars>>

\* update_relocation_profile (the second definition, which replaces the first)
update_relocation_profile(profile_id, kwargs) ==
    IF profile_id \in DOMAIN profiles
    THEN profiles' = [profiles EXCEPT ![profile_id] = SetAttrs(@, kwargs)]
    ELSE UNCHANGED profiles

UpdateProfile ==
    \E profile_id \in RowIds, relocation_name \in ProfileNames :
        /\ update_relocation_profile(profile_id,
                <<<<"relocation_name", relocation_name>>>>)
        /\ last' = [op |-> "update_relocation_profile", id |-> profile_id,
                    found |-> profile_id \in DOMAIN profiles,
                    raised |-> FALSE,
                    result |-> update_returns(profiles, profiles', profile_id)]
        /\ UNCHANGED <<today, cur_vars, expenses, phases, tasks>>

(***************************************************************************)
(* The ORM's unit of work for session.delete: rows reached through a       *)
(* relationship with cascade="all, delete-orphan" are deleted with their   *)
(* parent (RelocationProfile.phases/tasks/expenses, RelocationPhase.tasks/ *)
(* expenses); rows reached through Task.expenses, which has no delete      *)
(* cascade, stay and have related_task_id set to NULL.                     *)
(***************************************************************************)
\* Mutant: the phases' own collections are not followed.
CascadeTasks_ProfileOnly(gone_profiles, gone_phases, gone_tasks) ==
    gone_tasks \cup
    {t \in DOMAIN tasks : tasks[t].relocation_profile_id \in gone_profiles}

\* The tasks deleted with the given profiles, phases and tasks
CascadeTasks(gone_profiles, gone_phases, gone_tasks) ==
    gone_tasks \cup
    {t \in DOMAIN tasks :
        \/ tasks[t].relocation_profile_id \in gone_profiles
        \/ tasks[t].phase_id \in gone_phases}

\* The expenses deleted with the given profiles and phases
CascadeExpenses(gone_profiles, gone_phases) ==
    {e \in DOMAIN expenses :
        \/ expenses[e].relocation_profile_id \in gone_profiles
        \/ expenses[e].phase_id \in gone_phases}

\* Mutant: the expenses of a deleted task keep their reference to it.
Dissociate_KeepsReference(table, gone_tasks) == table

\* Task.expenses of deleted tasks: the foreign key of the rows that stay is
\* set to NULL
Dissociate(table, gone_tasks) ==
    [e \in DOMAIN table |->
        IF table[e].related_task_id # None
           /\ table[e].related_task_id[1] \in gone_tasks
        THEN [table[e] EXCEPT !.related_task_id = None]
        ELSE table[e]]

\* session.delete(...); session.commit() for the given parents
Flush(gone_profiles, gone_phases, gone_tasks) ==
    LET all_tasks == CascadeTasks(gone_profiles, gone_phases, gone_tasks)
    IN  /\ profiles' = Remove(profiles, gone_profiles)
        /\ phases' = Remove(phases, gone_phases)
        /\ tasks' = Remove(tasks, all_tasks)
        /\ expenses' = Dissociate(
                Remove(expenses, CascadeExpenses(gone_profiles, gone_phases)),
                all_tasks)

\* delete_relocation_profile
delete_relocation_profile(profile_id) ==
    IF profile_id \in DOMAIN profiles
    THEN Flush({profile_id},
               {ph \in DOMAIN phases :
                    phases[ph].relocation_profile_id = profile_id},
               {})
    ELSE UNCHANGED store_vars

DeleteProfile ==
    \E profile_id \in RowIds :
        /\ delete_relocation_profile(profile_id)
        /\ last' = [op |-> "delete_relocation_profile", id |-> profile_id,
                    found |-> profile_id \in DOMAIN profiles,
                    raised |-> FALSE,
                    returned |-> delete_returns(profiles, profile_id)]
        /\ UNCHANGED <<today, cur_vars>>

(***************************************************************************)
(* phase_operations: the phase store, and the handlers that call it.       *)
(***************************************************************************)
\* create_phase: the query of line 30 reads a row that is never used
create_phase(relocation_profile_id, relative_start_month, relative_end_month) ==
    phases' = (NewId(phases) :>
                [relocation_profile_id |-> relocation_profile_id,
                 relative_start_month |-> relative_start_month,
                 relative_end_month |-> relative_end_month]) @@ phases

CreatePhase ==
    \E relocation_profile_id \in RowIds, start_month \in Months,
       end_month \in Months :
        /\ NewId(phases) <= MaxRows
        /\ create_phase(relocation_profile_id, start_month, end_month)
        /\ last' = [op |-> "create_phase", id |-> NewId(phases)]
        /\ UNCHANGED <<today, cur_vars, expenses, profiles, tasks>>

\* get_all_phases: the filter is applied when its argument is true
get_all_phases(relocation_profile_id) ==
    {id \in DOMAIN phases :
        IntTruthy(relocation_profile_id)
            => phases[id].relocation_profile_id = relocation_profile_id[1]}

\* get_phase_by_id
get_phase_by_id(phase_id) == first(phases, phase_id)

GetPhaseById ==
    \E phase_id \in RowIds :
        /\ last' = [op |-> "get_phase_by_id", id |-> phase_id,
                    found |-> phase_id \in DOMAIN phases,
                    raised |-> FALSE,
                    result |-> get_phase_by_id(phase_id)]
        /\ UNCHANGED <<today, cur_vars, store_vars>>

\* Whether menu_create_phase reaches its call of create_phase
menu_create_phase_accepts(profile_id, start_month, end_month) ==
    /\ get_profile_by_id(profile_id) # None
    /\ ~(start_month >= end_month)

\* menu_create_phase: the profile is looked up and the months are compared
\* before create_phase is called
MenuCreatePhase ==
    \E profile_id \in RowIds, start_month \in Months, end_month \in Months :
        /\ NewId(phases) <= MaxRows
        /\ IF menu_create_phase_accepts(profile_id, start_month, end_month)
           THEN create_phase(profile_id, start_month, end_month)
           ELSE UNCHANGED phases
        /\ last' = [op |-> "menu_create_phase", id |-> NewId(phases),
                    created |-> menu_create_phase_accepts(profile_id,
                                        start_month, end_month)]
        /\ UNCHANGED <<today, cur_vars, expenses, profiles, tasks>>

\* web phase_create (POST): the profile is looked up, the months are not
\* compared
PhaseCreate ==
    \E profile_id \in RowIds, start_month \in Months, end_month \in Months :
        /\ NewId(phases) <= MaxRows
        /\ IF get_profile_by_id(profile_id) # None
           THEN create_phase(profile_id, start_month, end_month)
           ELSE UNCHANGED phases
        /\ last' = [op |-> "phase_create", id |-> NewId(phases),
                    created |-> get_profile_by_id(profile_id) # None]
        /\ UNCHANGED <<today, cur_vars, expenses, profiles, tasks>>

\* update_phase
update_phase(phase_id, kwargs) ==
    IF phase_id \in DOMAIN phases
    THEN phases' = [phases EXCEPT ![phase_id] = SetAttrs(@, kwargs)]
    ELSE UNCHANGED phases

\* The keyword sets menu_update_phase builds from its prompts: a new start
\* month, a new end month, or both
PhaseUpdates ==
    {<<<<"relative_start_month", m>>>> : m \in Months}
    \cup {<<<<"relative_end_month", m>>>> : m \in Months}
    \cup {<<<<"relative_start_month", s>>, <<"relative_end_month", e>>>> :
            s \in Months, e \in Months}

\* update_phase called with one of the given keyword sets
UpdatePhaseFrom(inputs) ==
    \E phase_id \in RowIds, kwargs \in inputs :
        /\ update_phase(phase_id, kwargs)
        /\ last' = [op |-> "update_phase", id |-> phase_id,
                    kwargs |-> kwargs,
                    found |-> phase_id \in DOMAIN phases,
                    raised |-> FALSE,
                    result |-> update_returns(phases, phases', phase_id)]
        /\ UNCHANGED <<today, cur_vars, expenses, profiles, tasks>>

UpdatePhase == UpdatePhaseFrom(PhaseUpdates)

\* menu_update_phase: get_phase_by_id, then update_phase with what was typed
MenuUpdatePhase ==
    \E phase_id \in RowIds, kwargs \in PhaseUpdates :
        /\ IF get_phase_by_id(phase_id) # None
           THEN update_phase(phase_id, kwargs)
           ELSE UNCHANGED phases
        /\ last' = [op |-> "menu_update_phase", id |-> phase_id,
                    found |-> phase_id \in DOMAIN phases]
        /\ UNCHANGED <<today, cur_vars, expenses, profiles, tasks>>

\* delete_phase
delete_phase(phase_id) ==
    IF phase_id \in DOMAIN phases
    THEN Flush({}, {phase_id}, {})
    ELSE UNCHANGED store_vars

DeletePhase ==
    \E phase_id \in RowIds :
        /\ delete_phase(phase_id)
        /\ last' = [op |-> "delete_phase", id |-> phase_id,
                    found |-> phase_id \in DOMAIN phases,
                    raised |-> FALSE,
                    returned |-> delete_returns(phases, phase_id)]
        /\ UNCHANGED <<today, cur_vars>>

PhaseNext ==
    \/ CreateProfile
    \/ CreatePhase
    \/ MenuCreatePhase
    \/ PhaseCreate
    \/ UpdatePhase
    \/ MenuUpdatePhase
    \/ DeletePhase

PhaseSpec == Init /\ [][PhaseNext]_vars

(***************************************************************************)
(* task_operations: the task store, and the handlers that call it.         *)
(***************************************************************************)
\* create_task: the status is stored as given and no completed date is set
create_task(relocation_profile_id, phase_id, status) ==
    tasks' = (NewId(tasks) :>
                [relocation_profile_id |-> relocation_profile_id,
                 phase_id |-> phase_id,
                 status |-> status,
                 completed_date |-> None]) @@ tasks

\* create_task called with each status, for phase 1 of profile 1
CreateTask ==
    \E status \in TaskStatuses :
        /\ NewId(tasks) <= MaxRows
        /\ create_task(1, 1, status)
        /\ last' = [op |-> "create_task", id |-> NewId(tasks)]
        /\ UNCHANGED <<today, cur_vars, expenses, profiles, phases>>

\* get_all_tasks: the rows the query selects (each filter is applied only
\* when its argument is true in Python's sense); the ORDER BY is not modelled
get_all_tasks(relocation_profile_id, phase_id, status) ==
    {id \in DOMAIN tasks :
        /\ IntTruthy(relocation_profile_id)
            => tasks[id].relocation_profile_id = relocation_profile_id[1]
        /\ IntTruthy(phase_id) => tasks[id].phase_id = phase_id[1]
        /\ StrTruthy(status) => tasks[id].status = status[1]}

\* get_task_by_id
get_task_by_id(task_id) == first(tasks, task_id)

GetTaskById ==
    \E task_id \in RowIds :
        /\ last' = [op |-> "get_task_by_id", id |-> task_id,
                    found |-> task_id \in DOMAIN tasks,
                    raised |-> FALSE,
                    result |-> get_task_by_id(task_id)]
        /\ UNCHANGED <<today, cur_vars, store_vars>>

\* update_task
update_task(task_id, kwargs) ==
    IF task_id \in DOMAIN tasks
    THEN tasks' = [tasks EXCEPT ![task_id] = SetAttrs(@, kwargs)]
    ELSE UNCHANGED tasks

\* update_task called with one of the given keyword sets
UpdateTaskFrom(inputs) ==
    \E task_id \in RowIds, kwargs \in inputs :
        /\ update_task(task_id, kwargs)
        /\ last' = [op |-> "update_task", id |-> task_id,
                    kwargs |-> kwargs,
                    found |-> task_id \in DOMAIN tasks,
                    raised |-> FALSE,
                    result |-> update_returns(tasks, tasks', task_id)]
        /\ UNCHANGED <<today, cur_vars, expenses, profiles, phases>>

\* update_task called with a new status
UpdateTask == UpdateTaskFrom({<<<<"status", status>>>> : status \in TaskStatuses})

\* menu_update_task, "Update status?": the new status, and today's date as
\* completed_date when the new status is 'completed'
StatusUpdates(status) ==
    IF status = "completed"
    THEN <<<<"status", status>>, <<"completed_date", Some(today)>>>>
    ELSE <<<<"status", status>>>>

\* menu_update_task: get_task_by_id, then update_task with what was chosen
MenuUpdateTask ==
    \E task_id \in RowIds, status \in TaskStatuses :
        /\ IF get_task_by_id(task_id) # None
           THEN update_task(task_id, StatusUpdates(status))
           ELSE UNCHANGED tasks
        /\ last' = [op |-> "menu_update_task", id |-> task_id,
                    found |-> task_id \in DOMAIN tasks]
        /\ UNCHANGED <<today, cur_vars, expenses, profiles, phases>>

\* Mutant: the completed date is left as it was.
mark_task_completed_StatusOnly(task_id, completed_date) ==
    update_task(task_id, <<<<"status", "completed">>>>)

\* mark_task_completed(task_id, completed_date=None)
mark_task_completed(task_id, completed_date) ==
    update_task(task_id,
        <<<<"status", "completed">>,
          <<"completed_date",
            IF completed_date = None THEN Some(today) ELSE completed_date>>>>)

\* mark_task_completed as task_complete (web) and menu_mark_task_completed
\* call it, with no date, and with a date given by a caller of the store
MarkTaskCompleted ==
    \E task_id \in RowIds, completed_date \in {None, Some(0)} :
        /\ mark_task_completed(task_id, completed_date)
        /\ last' = [op |-> "mark_task_completed", id |-> task_id,
                    completed_date |-> completed_date,
                    day |-> today,
                    found |-> task_id \in DOMAIN tasks,
                    raised |-> FALSE,
                    result |-> update_returns(tasks, tasks', task_id),
                    before |-> tasks]
        /\ UNCHANGED <<today, cur_vars, expenses, profiles, phases>>

\* delete_task
delete_task(task_id) ==
    IF task_id \in DOMAIN tasks
    THEN Flush({}, {}, {task_id})
    ELSE UNCHANGED store_vars

DeleteTask ==
    \E task_id \in RowIds :
        /\ delete_task(task_id)
        /\ last' = [op |-> "delete_task", id |-> task_id,
                    found |-> task_id \in DOMAIN tasks,
                    raised |-> FALSE,
                    returned |-> delete_returns(tasks, task_id)]
        /\ UNCHANGED <<today, cur_vars>>

TaskNext ==
    \/ CreateTask
    \/ UpdateTask
    \/ MenuUpdateTask
    \/ MarkTaskCompleted
    \/ DeleteTask
    \/ Tick

TaskSpec == Init /\ [][TaskNext]_vars

(***************************************************************************)
(* The handlers of menu.py and web/app.py that create tasks and expenses   *)
(* under a profile, given the phase and the related task as identifiers.   *)
(***************************************************************************)
\* The expense create_expense stores for the given references, its other
\* parameters being an unpaid estimate
LinkedExpense(profile_id, phase_id, related_task_id) ==
    [relocation_profile_id |-> profile_id, phase_id |-> phase_id,
     estimated_amount |-> CHOOSE a \in EstimatedAmounts : TRUE,
     actual_amount |-> None, exchange_rate |-> None,
     cost_certainty |-> "estimated", payment_status |-> "unpaid",
     include_in_budget |-> TRUE, due_date |-> None,
     related_task_id |-> related_task_id]

\* "Verify phase exists and belongs to this profile"
PhaseOfProfile(phase_id, profile_id) ==
    /\ get_phase_by_id(phase_id) # None
    /\ get_phase_by_id(phase_id)[1].relocation_profile_id = profile_id

\* Whether menu_create_task and menu_create_expense reach their call of the
\* store: the profile exists, it has phases, and the phase is one of them
menu_accepts(profile_id, phase_id) ==
    /\ get_profile_by_id(profile_id) # None
    /\ get_all_phases(Some(profile_id)) # {}
    /\ PhaseOfProfile(phase_id, profile_id)

\* Whether task_create and expense_create (web, POST) reach their call of
\* the store: the profile exists and it has phases
web_accepts(profile_id) ==
    /\ get_profile_by_id(profile_id) # None
    /\ get_all_phases(Some(profile_id)) # {}

\* menu_create_task
MenuCreateTask ==
    \E profile_id \in RowIds, phase_id \in RowIds :
        /\ NewId(tasks) <= MaxRows
        /\ IF menu_accepts(profile_id, phase_id)
           THEN create_task(profile_id, phase_id, "not_started")
           ELSE UNCHANGED tasks
        /\ last' = [op |-> "menu_create_task", id |-> NewId(tasks),
                    created |-> menu_accepts(profile_id, phase_id)]
        /\ UNCHANGED <<today, cur_vars, expenses, profiles, phases>>

\* web task_create (POST): phase_id is int(request.form['phase_id']); the
\* form's status is left at its default
TaskCreate ==
    \E profile_id \in RowIds, phase_id \in RowIds :
        /\ NewId(tasks) <= MaxRows
        /\ IF web_accepts(profile_id)
           THEN create_task(profile_id, phase_id, "not_started")
           ELSE UNCHANGED tasks
        /\ last' = [op |-> "task_create", id |-> NewId(tasks),
                    created |-> web_accepts(profile_id)]
        /\ UNCHANGED <<today, cur_vars, expenses, profiles, phases>>

\* menu_create_expense, "Link to a task?": the identifier typed when the
\* profile has tasks, None when it has none
menu_related_task(profile_id, typed) ==
    IF typed # None /\ get_all_tasks(Some(profile_id), None, None) # {}
    THEN typed ELSE None

\* menu_create_expense
MenuCreateExpense ==
    \E profile_id \in RowIds, phase_id \in RowIds,
       typed \in {None} \cup {Some(t) : t \in RowIds} :
        /\ NewId(expenses) <= MaxExpenses
        /\ IF menu_accepts(profile_id, phase_id)
           THEN create_expense(LinkedExpense(profile_id, phase_id,
                                    menu_related_task(profile_id, typed)))
           ELSE UNCHANGED expenses
        /\ last' = [op |-> "menu_create_expense", id |-> NewId(expenses),
                    created |-> menu_accepts(profile_id, phase_id)]
        /\ UNCHANGED <<today, cur_vars, plan_vars>>

\* web expense_create (POST): phase_id and related_task_id are the form's
ExpenseCreate ==
    \E profile_id \in RowIds, phase_id \in RowIds,
       related_task_id \in {None} \cup {Some(t) : t \in RowIds} :
        /\ NewId(expenses) <= MaxExpenses
        /\ IF web_accepts(profile_id)
           THEN create_expense(LinkedExpense(profile_id, phase_id,
                                             related_task_id))
           ELSE UNCHANGED expenses
        /\ last' = [op |-> "expense_create", id |-> NewId(expenses),
                    created |-> web_accepts(profile_id)]
        /\ UNCHANGED <<today, cur_vars, plan_vars>>

PlanNext ==
    \/ CreateProfile
    \/ MenuCreatePhase
    \/ MenuCreateTask
    \/ TaskCreate
    \/ MenuCreateExpense
    \/ ExpenseCreate
    \/ DeleteProfile
    \/ DeletePhase
    \/ DeleteTask

PlanSpec == Init /\ [][PlanNext]_vars

(***************************************************************************)
(* The by-id operations of the four stores, one store at a time: a row is  *)
(* created in a table while the other three are empty.  An expense is      *)
(* created as an unpaid estimate with no related task.                     *)
(***************************************************************************)
ByIdNext ==
    \/ (DOMAIN phases \cup DOMAIN tasks \cup DOMAIN expenses = {})
            /\ CreateProfile
    \/ GetProfileById
    \/ UpdateProfile
    \/ DeleteProfile
    \/ (DOMAIN profiles \cup DOMAIN tasks \cup DOMAIN expenses = {})
            /\ CreatePhase
    \/ GetPhaseById
    \/ UpdatePhase
    \/ DeletePhase
    \/ (DOMAIN profiles \cup DOMAIN phases \cup DOMAIN expenses = {})
            /\ CreateTask
    \/ GetTaskById
    \/ UpdateTask
    \/ MarkTaskCompleted
    \/ DeleteTask
    \/ (DOMAIN profiles \cup DOMAIN phases \cup DOMAIN tasks = {})
            /\ CreateExpenseFrom({LinkedExpense(1, 1, None)})
    \/ GetExpenseById
    \/ UpdateExpense
    \/ MarkExpensePaid
    \/ DeleteExpense

ByIdSpec == Init /\ [][ByIdNext]_vars

(***************************************************************************)
(* The generic updates of the expense, task and phase stores, called with  *)
(* keyword sets that mix columns with names the class does not have and,   *)
(* for an expense, with its read-only properties; one store at a time.     *)
(***************************************************************************)
ExpenseKwargs ==
    {<<<<"colour", "red">>, <<"actual_amount", Some(6000)>>,
       <<"payment_status", "paid">>>>,
     <<<<"actual_amount", Some(6000)>>, <<"shade", "dark">>,
       <<"colour", "red">>, <<"include_in_budget", FALSE>>>>,
     <<<<"variance", 0>>, <<"actual_amount", Some(6000)>>>>,
     <<<<"payment_status", "paid">>, <<"is_overdue", FALSE>>,
       <<"include_in_budget", FALSE>>>>,
     <<<<"include_in_budget", FALSE>>, <<"total_primary_currency", 0>>>>}

TaskKwargs ==
    {<<<<"colour", "red">>, <<"status", "completed">>>>,
     <<<<"status", "in_progress">>, <<"colour", "red">>,
       <<"completed_date", Some(0)>>>>}

PhaseKwargs ==
    {<<<<"relative_end_month", 1>>, <<"colour", "red">>>>,
     <<<<"colour", "red">>, <<"relative_start_month", 1>>,
       <<"relative_end_month", 0>>>>}

UpdateNext ==
    \/ (DOMAIN phases \cup DOMAIN tasks = {})
            /\ CreateExpenseFrom({LinkedExpense(1, 1, None)})
    \/ UpdateExpenseFrom(ExpenseKwargs)
    \/ (DOMAIN expenses \cup DOMAIN tasks = {})
            /\ CreatePhase
    \/ UpdatePhaseFrom(PhaseKwargs)
    \/ (DOMAIN expenses \cup DOMAIN phases = {})
            /\ CreateTask
    \/ UpdateTaskFrom(TaskKwargs)

UpdateSpec == Init /\ [][UpdateNext]_vars

(***************************************************************************)
(* The list operations of the phase, task and expense stores, called with  *)
(* each filter omitted (None) or supplied; one store at a time.            *)
(***************************************************************************)
\* An identifier filter: omitted, 0, or an id a row may hold
IdFilters == {None, Some(0)} \cup {Some(id) : id \in RowIds}

\* get_all_phases(relocation_profile_id=...)
GetAllPhases ==
    \E relocation_profile_id \in IdFilters :
        /\ last' = [op |-> "get_all_phases",
                    relocation_profile_id |-> relocation_profile_id,
                    result |-> get_all_phases(relocation_profile_id)]
        /\ UNCHANGED <<today, cur_vars, store_vars>>

\* get_all_tasks(relocation_profile_id=..., phase_id=..., status=...)
GetAllTasks ==
    \E relocation_profile_id \in IdFilters, phase_id \in IdFilters,
       status \in {None, Some(""), Some("completed")} :
        /\ last' = [op |-> "get_all_tasks",
                    relocation_profile_id |-> relocation_profile_id,
                    phase_id |-> phase_id, status |-> status,
                    result |-> get_all_tasks(relocation_profile_id, phase_id,
                                             status)]
        /\ UNCHANGED <<today, cur_vars, store_vars>>

\* get_all_expenses(relocation_profile_id=..., phase_id=...,
\* payment_status=..., cost_certainty=...)
GetAllExpenses ==
    \E relocation_profile_id \in IdFilters, phase_id \in {None, Some(1)},
       payment_status \in {None, Some(""), Some("paid")},
       cost_certainty \in {None, Some("estimated")} :
        /\ last' = [op |-> "get_all_expenses",
                    relocation_profile_id |-> relocation_profile_id,
                    phase_id |-> phase_id, payment_status |-> payment_status,
                    cost_certainty |-> cost_certainty,
                    result |-> get_all_expenses(relocation_profile_id,
                                    phase_id, payment_status, cost_certainty)]
        /\ UNCHANGED <<today, cur_vars, store_vars>>

ListNext ==
    \/ (DOMAIN tasks \cup DOMAIN expenses = {}) /\ CreatePhase
    \/ GetAllPhases
    \/ (DOMAIN phases \cup DOMAIN expenses = {}) /\ CreateTask
    \/ GetAllTasks
    \/ (DOMAIN phases \cup DOMAIN tasks = {})
            /\ CreateExpenseFrom({LinkedExpense(p, 1, None) : p \in ProfileIds})
    \/ MarkExpensePaid
    \/ GetAllExpenses

ListSpec == Init /\ [][ListNext]_vars

(***************************************************************************)
(* The unit of work of a store operation when the database may refuse it:  *)
(* flush or commit raises, `except Exception` calls session.rollback() and *)
(* re-raises.  Tasks and expenses of profile 1, an expense being created   *)
(* with or without a related task.                                         *)
(***************************************************************************)
\* Mutant: what was flushed before the failure stays.
commit_NoRollback(succeeds, write) == write

\* session.commit(), or session.rollback() when it raised
commit(succeeds, write) == IF succeeds THEN write ELSE UNCHANGED store_vars

\* create_task
TryCreateTask ==
    \E succeeds \in BOOLEAN :
        /\ NewId(tasks) <= MaxRows
        /\ commit(succeeds, create_task(1, 1, "not_started")
                                /\ UNCHANGED <<expenses, profiles, phases>>)
        /\ last' = [op |-> "create_task", id |-> NewId(tasks),
                    commit_failed |-> ~succeeds, raised |-> ~succeeds]
        /\ UNCHANGED <<today, cur_vars>>

\* update_expense
TryUpdateExpense ==
    \E succeeds \in BOOLEAN, expense_id \in 1..MaxExpenses :
        LET kwargs == <<<<"actual_amount", Some(6000)>>,
                        <<"payment_status", "paid">>>>
            found == expense_id \in DOMAIN expenses
        IN  /\ commit(succeeds, update_expense(expense_id, kwargs)
                                    /\ UNCHANGED plan_vars)
            /\ last' = [op |-> "update_expense", id |-> expense_id,
                        kwargs |-> kwargs, found |-> found,
                        commit_failed |-> found /\ ~succeeds,
                        raised |-> found /\ ~succeeds,
                        result |-> IF succeeds
                                   THEN update_returns(expenses, expenses',
                                                       expense_id)
                                   ELSE None]
            /\ UNCHANGED <<today, cur_vars>>

\* delete_relocation_profile
TryDeleteProfile ==
    \E succeeds \in BOOLEAN, profile_id \in RowIds :
        LET found == profile_id \in DOMAIN profiles
        IN  /\ commit(succeeds, delete_relocation_profile(profile_id))
            /\ last' = [op |-> "delete_relocation_profile", id |-> profile_id,
                        found |-> found,
                        commit_failed |-> found /\ ~succeeds,
                        raised |-> found /\ ~succeeds,
                        returned |-> succeeds
                                     /\ delete_returns(profiles, profile_id)]
            /\ UNCHANGED <<today, cur_vars>>

UnitNext ==
    \/ CreateProfile
    \/ TryCreateTask
    \/ CreateExpenseFrom({LinkedExpense(1, 1, None),
                          LinkedExpense(1, 1, Some(1))})
    \/ TryUpdateExpense
    \/ DeleteTask
    \/ TryDeleteProfile

UnitSpec == Init /\ [][UnitNext]_vars

(***************************************************************************)
(* Claims about the currency conversion service.                           *)
(***************************************************************************)
LookedUpPair == IsLookup /\ last.lookup.from # last.lookup.to

\* C1: a rate served from the cache (a lookup of a pair A != B that issued no
\* network request) was fetched on the day of the call.
C1_CachedRateIsTodays ==
    (LookedUpPair /\ ~last.lookup.net)
        => last.lookup.fetched_before = Some(last.lookup.day)

\* C2: a lookup of a pair A != B that follows a lookup of the same pair made on
\* the same day, with no clear_cache between them, issues no network request
\* and returns the value the earlier lookup returned.
C2_SecondCallHits ==
    (LookedUpPair /\ last.lookup.had_prior)
        => (~last.lookup.net /\ last.lookup.rate = last.lookup.prior_rate)

\* C2 (amended): as C2, when the earlier lookup returned a rate.
C2_SecondCallHitsAfterRate ==
    (LookedUpPair /\ last.lookup.had_prior /\ last.lookup.prior_rate # None)
        => (~last.lookup.net /\ last.lookup.rate = last.lookup.prior_rate)

C2_Witness ==
    /\ LookedUpPair /\ last.lookup.had_prior /\ last.lookup.prior_rate # None
    /\ ~last.lookup.net /\ last.lookup.rate = Some(12500)

\* C3: get_exchange_rate(c, c) returns 10000, issues no network request and
\* leaves the rate cache and its date stamp as they were.
C3_SameCurrencyIsParity ==
    [][(IsLookup' /\ last'.lookup.from = last'.lookup.to)
        => /\ last'.lookup.rate = Some(10000)
           /\ ~last'.lookup.net
           /\ rate_cache' = rate_cache
           /\ cache_date' = cache_date]_vars

\* a same-currency lookup against a stale, non-empty cache
C3_Witness ==
    /\ IsLookup /\ last.lookup.from = last.lookup.to
    /\ last.lookup.rate = Some(10000)
    /\ rate_cache # EmptyMap
    /\ cache_date # None /\ cache_date # Some(today)

C5_UnavailableKeepsAmount ==
    (last.op = "convert_amount" /\ last.lookup.rate = None)
        => (last.result = last.amount /\ ~last.lookup.raised)

C5_Witness ==
    /\ last.op = "convert_amount" /\ last.lookup.rate = None
    /\ last.amount = 10000 /\ last.result = 10000

\* C6: with an available rate r, convert_amount returns floor(amount * r / 10000):
\* the integer q with q * 10000 <= amount * r < (q + 1) * 10000; 10000 at rate
\* 9200 gives 9200; a same-currency conversion returns the amount.
C6_ConvertFloors ==
    (last.op = "convert_amount" /\ last.lookup.rate # None)
        => LET r == last.lookup.rate[1]
               q == last.result
           IN  /\ q * 10000 <= last.amount * r
               /\ last.amount * r < (q + 1) * 10000
               /\ (last.amount = 10000 /\ r = 9200) => q = 9200
               /\ (last.lookup.from = last.lookup.to) => q = last.amount

\* a negative amount whose product with the rate is not a multiple of 10000
C6_Witness ==
    /\ last.op = "convert_amount" /\ last.lookup.rate = Some(9200)
    /\ last.amount = -1 /\ last.result = -1

\* C7: clear_cache leaves the cache empty and the date stamp unset, and the
\* first lookup of a pair A != B after it issues a network request.
C7_ClearForcesFetch ==
    /\ last.op = "clear_cache" => (rate_cache = EmptyMap /\ cache_date = None)
    /\ (LookedUpPair /\ last.lookup.after_clear) => last.lookup.net

\* the pair was fetched today, then the cache was cleared, then it is looked up
C7_Witness ==
    /\ LookedUpPair /\ last.lookup.after_clear /\ last.lookup.net
    /\ last.lookup.fetched_before = Some(last.lookup.day)

(***************************************************************************)
(* Claims about the budget aggregator.                                     *)
(***************************************************************************)
IsSummary == last.op = "get_budget_summary"

\* The budget-included expenses of profile p
IncludedOf(p) ==
    {id \in DOMAIN expenses :
        /\ expenses[id].relocation_profile_id = p
        /\ expenses[id].include_in_budget = TRUE}

\* C8: total_paid is the sum, over the included expenses of the profile that
\* are paid, of the actual amount when one is present (0 included) and of the
\* estimated amount otherwise, divided by 100.
C8_TotalPaidUsesPresentActual ==
    IsSummary =>
        LET paid == {id \in IncludedOf(last.id) :
                        expenses[id].payment_status = "paid"}
            cents == SumOver(paid,
                        [id \in paid |->
                            IF expenses[id].actual_amount # None
                            THEN expenses[id].actual_amount[1]
                            ELSE expenses[id].estimated_amount])
        IN  last.summary.total_paid.num * 100 = cents * last.summary.total_paid.den

IsProgressOf(pct, total_paid, total_estimated) ==
    pct.num * total_estimated.num * total_paid.den
        = total_paid.num * 100 * pct.den * total_estimated.den

\* C10: no division by zero; budget_progress_pct is total_paid /
\* total_estimated * 100 whenever total_estimated is not 0 and is 0 when it is
\* 0; over no included expenses total_estimated, budget_progress_pct and
\* total_expenses are 0.
C10_ProgressWheneverNonZero ==
    IsSummary =>
        LET r == last.summary
        IN  /\ ~r.raised
            /\ r.total_estimated.num # 0
                => IsProgressOf(r.budget_progress_pct, r.total_paid, r.total_estimated)
            /\ r.total_estimated.num = 0 => r.budget_progress_pct.num = 0
            /\ IncludedOf(last.id) = {}
                => /\ r.total_estimated.num = 0
                   /\ r.budget_progress_pct.num = 0
                   /\ r.total_expenses = 0

\* C10 (amended): as C10, with the quotient reported whenever total_estimated
\* is greater than 0, and 0 reported whenever it is 0 or less.
C10_ProgressWheneverPositive ==
    IsSummary =>
        LET r == last.summary
        IN  /\ ~r.raised
            /\ r.total_estimated.num > 0
                => IsProgressOf(r.budget_progress_pct, r.total_paid, r.total_estimated)
            /\ r.total_estimated.num <= 0 => r.budget_progress_pct.num = 0
            /\ IncludedOf(last.id) = {}
                => /\ r.total_estimated.num = 0
                   /\ r.budget_progress_pct.num = 0
                   /\ r.total_expenses = 0

\* included expenses whose estimates cancel: a total of 0 with a paid amount
C10_Witness ==
    /\ IsSummary
    /\ last.summary.total_expenses = 2
    /\ last.summary.total_estimated.num = 0
    /\ last.summary.total_paid.num # 0
    /\ last.summary.budget_progress_pct.num = 0

(***************************************************************************)
(* Claims about the ledger.                                                *)
(***************************************************************************)
\* C11: over_budget_count is the number of included expenses of the profile
\* whose actual amount is present and strictly greater than the estimated
\* amount; no actual amount, or one not above the estimate, is not counted.
C11_OverBudgetCount ==
    IsSummary =>
        last.summary.over_budget_count
            = Cardinality({id \in IncludedOf(last.id) :
                            /\ expenses[id].actual_amount # None
                            /\ expenses[id].actual_amount[1]
                                   > expenses[id].estimated_amount})

\* a summary over one expense above its estimate and one exactly on it
C11_Witness ==
    /\ IsSummary
    /\ last.summary.over_budget_count = 1
    /\ last.summary.total_expenses = 2
    /\ \E id \in IncludedOf(last.id) :
          expenses[id].actual_amount = Some(expenses[id].estimated_amount)

\* The claim's definition of overdue on day d
PastDueUnpaid(e, d) ==
    /\ e.due_date # None
    /\ e.due_date[1] < d
    /\ e.payment_status # "paid"

C13_TotalUsesPresentAmount ==
    \A id \in DOMAIN expenses :
        LET e == expenses[id]
            a == IF e.actual_amount # None
                 THEN e.actual_amount[1] ELSE e.estimated_amount
        IN  total_primary_currency(e)
                = IF e.exchange_rate # None
                  THEN Frac(a * e.exchange_rate[1], 10000)
                  ELSE Frac(a, 100)

\* C27: an expense stored with the parity rate 10000 has the same
\* total_primary_currency as the same expense stored with no rate.
C27_ParityRateIsNoRate ==
    \A id \in DOMAIN expenses :
        total_primary_currency(
            [expenses[id] EXCEPT !.exchange_rate = Some(10000)])
        = total_primary_currency([expenses[id] EXCEPT !.exchange_rate = None])

(***************************************************************************)
(* Claims about the phase store.                                           *)
(***************************************************************************)
\* C14: every persisted phase has relative_start_month < relative_end_month,
\* whichever of the store, the menu and the web route created or updated it.
C14_PhaseStartsBeforeEnd ==
    \A id \in DOMAIN phases :
        phases[id].relative_start_month < phases[id].relative_end_month

\* C26: a phase is persisted only for a profile that exists: every phase
\* that a step adds to the table references a profile present at that time.
C26_NewPhaseOfExistingProfile ==
    [][\A id \in DOMAIN phases' \ DOMAIN phases :
            phases'[id].relocation_profile_id \in DOMAIN profiles]_vars

(***************************************************************************)
(* Claims about the task store.                                            *)
(***************************************************************************)
IsMarkCompleted ==
    /\ last.op = "mark_task_completed"
    /\ last.found
    /\ last.completed_date = None

C18_CompletedDateIffCompleted ==
    \A id \in DOMAIN tasks :
        tasks[id].completed_date # None <=> tasks[id].status = "completed"

(***************************************************************************)
(* Claims about the references between profiles, phases, tasks, expenses.  *)
(***************************************************************************)
\* The row references an existing phase of the row's own profile
InPhaseOfOwnProfile(row) ==
    /\ row.phase_id \in DOMAIN phases
    /\ phases[row.phase_id].relocation_profile_id = row.relocation_profile_id

\* C15: every task and every expense references a phase whose profile is the
\* task's or expense's own profile.
C15_PhaseOfOwnProfile ==
    /\ \A id \in DOMAIN tasks : InPhaseOfOwnProfile(tasks[id])
    /\ \A id \in DOMAIN expenses : InPhaseOfOwnProfile(expenses[id])

\* C16: an expense whose related_task_id is set references an existing task
\* of the expense's own profile.
C16_RelatedTaskOfOwnProfile ==
    \A id \in DOMAIN expenses :
        expenses[id].related_task_id # None =>
            /\ expenses[id].related_task_id[1] \in DOMAIN tasks
            /\ tasks[expenses[id].related_task_id[1]].relocation_profile_id
                   = expenses[id].relocation_profile_id

\* The row is owned by profile p: it names p, or its phase is one of p's
OwnedBy(row, p) ==
    \/ row.relocation_profile_id = p
    \/ /\ row.phase_id \in DOMAIN phases
       /\ phases[row.phase_id].relocation_profile_id = p

\* The rows of the table that p does not own are in next as they are in table
OthersKept(table, next, p) ==
    \A id \in DOMAIN table :
        ~OwnedBy(table[id], p) => id \in DOMAIN next /\ next[id] = table[id]

\* C19: a step in which delete_relocation_profile(p) returns True leaves no
\* phase, task or expense of p or of a phase of p, and leaves the phases,
\* tasks and expenses of the other profiles as they were.
C19_DeleteProfileCascades ==
    [][(/\ last'.op = "delete_relocation_profile"
        /\ last'.id \in DOMAIN profiles
        /\ last'.returned)
       => LET p == last'.id
          IN  /\ p \notin DOMAIN profiles'
              /\ \A id \in DOMAIN phases \cap DOMAIN phases' :
                    phases[id].relocation_profile_id # p
              /\ \A id \in DOMAIN tasks \cap DOMAIN tasks' :
                    ~OwnedBy(tasks[id], p)
              /\ \A id \in DOMAIN expenses \cap DOMAIN expenses' :
                    ~OwnedBy(expenses[id], p)
              /\ \A id \in DOMAIN phases :
                    phases[id].relocation_profile_id # p
                        => id \in DOMAIN phases' /\ phases'[id] = phases[id]
              /\ OthersKept(tasks, tasks', p)
              /\ OthersKept(expenses, expenses', p)]_vars

(***************************************************************************)
(* Claims about operations on identifiers that are not stored.             *)
(***************************************************************************)
GetOps ==
    {"get_profile_by_id", "get_phase_by_id", "get_task_by_id",
     "get_expense_by_id"}
UpdateOps ==
    {"update_relocation_profile", "update_phase", "update_task",
     "mark_task_completed", "update_expense", "mark_expense_paid"}
DeleteOps ==
    {"delete_relocation_profile", "delete_phase", "delete_task",
     "delete_expense"}

\* C20: in every store, a get, an update or a delete of an identifier that
\* is not stored does not raise and leaves all tables as they were; the get
\* and the update return None, the delete returns False.
C20_MissingIdIsHarmless ==
    [][(/\ last'.op \in GetOps \cup UpdateOps \cup DeleteOps
        /\ ~last'.found)
       => /\ ~last'.raised
          /\ UNCHANGED store_vars
          /\ last'.op \in GetOps \cup UpdateOps => last'.result = None
          /\ last'.op \in DeleteOps => last'.returned = FALSE]_vars

\* a delete of an identifier that is not stored, beside a row that is
C20_Witness ==
    /\ last.op \in DeleteOps
    /\ ~last.found
    /\ last.returned = FALSE
    /\ DOMAIN expenses # {}

(***************************************************************************)
(* Claims about the bounds of the budget summary.                          *)
(***************************************************************************)
\* a <= b for fractions with positive denominators
FracLeq(a, b) == a.num * b.den <= b.num * a.den

\* The summary stays within the estimate
WithinEstimate(summary) ==
    /\ FracLeq(summary.total_paid, summary.total_estimated)
    /\ summary.remaining.num >= 0
    /\ FracLeq(summary.budget_progress_pct, Frac(100, 1))

\* No included expense of profile p eats into the estimate of the others:
\* none is paid with an actual amount above its estimate, and none is unpaid
\* with a negative estimate
NoneOverpaid(p) ==
    \A id \in IncludedOf(p) :
        IF expenses[id].payment_status = "paid"
        THEN \/ expenses[id].actual_amount = None
             \/ expenses[id].actual_amount[1] <= expenses[id].estimated_amount
        ELSE expenses[id].estimated_amount >= 0

\* C28 as stated: every summary has total_paid <= total_estimated, remaining
\* >= 0 and budget_progress_pct <= 100.
C28_PaidWithinEstimate == IsSummary => WithinEstimate(last.summary)

\* C28, amended: a summary has total_paid <= total_estimated, remaining >= 0
\* and budget_progress_pct <= 100 when no included expense of the profile is
\* paid above its estimate or unpaid with a negative estimate; remaining is
\* total_estimated - total_paid in every case.
C28_PaidWithinEstimateUnlessOverpaid ==
    IsSummary =>
        /\ last.summary.remaining
                = FracSub(last.summary.total_estimated, last.summary.total_paid)
        /\ NoneOverpaid(last.id) => WithinEstimate(last.summary)

\* A summary of a profile with a paid and an unpaid expense, none overpaid
C28_Witness ==
    /\ IsSummary /\ NoneOverpaid(last.id)
    /\ last.summary.total_paid.num > 0
    /\ last.summary.remaining.num > 0

(***************************************************************************)
(* Claims about the generic updates.                                       *)
(***************************************************************************)
IsUpdate == last.op \in {"update_expense", "update_task", "update_phase"}

\* The table an update writes
Updated(op, e, t, p) ==
    IF op = "update_expense" THEN e ELSE IF op = "update_task" THEN t ELSE p

\* The names the pairs carry
Names(kwargs) == {kwargs[i][1] : i \in DOMAIN kwargs}

\* The value of the last pair that names c, or old when no pair does
Latest(kwargs, c, old) ==
    LET at == {i \in DOMAIN kwargs : kwargs[i][1] = c}
    IN  IF at = {} THEN old
        ELSE kwargs[CHOOSE i \in at : \A j \in at : j <= i][2]

ComputedProperties == {"variance", "is_overdue", "total_primary_currency"}

\* Every column of the row holds what the pairs say, and nothing else changed
AllApplied(row, next, kwargs) ==
    /\ DOMAIN next = DOMAIN row
    /\ \A c \in DOMAIN row : next[c] = Latest(kwargs, c, row[c])

\* C21: a generic update of an existing expense, task or phase leaves every
\* other row alone and either applies all the pairs that name a column or
\* none of them; pairs whose name the entity does not have change nothing and
\* do not make the update fail: when no pair names a computed property the
\* update does not raise and all the column pairs are applied.
C21_UnknownNamesSkipped ==
    [][(IsUpdate' /\ last'.found) =>
        LET table == Updated(last'.op, expenses, tasks, phases)
            next == Updated(last'.op, expenses', tasks', phases')
            id == last'.id
            kwargs == last'.kwargs
        IN  /\ DOMAIN next = DOMAIN table
            /\ \A other \in DOMAIN table \ {id} : next[other] = table[other]
            /\ \/ next[id] = table[id]
               \/ AllApplied(table[id], next[id], kwargs)
            /\ (Names(kwargs) \cap ComputedProperties = {})
                => /\ ~last'.raised
                   /\ AllApplied(table[id], next[id], kwargs)
                   /\ last'.result = Some(next[id])]_vars

\* An update whose pairs put a name the entity does not have between two
\* columns has changed both columns
C21_Witness ==
    /\ IsUpdate /\ last.found /\ ~last.raised
    /\ \E i, j, k \in DOMAIN last.kwargs :
        LET row == Updated(last.op, expenses, tasks, phases)[last.id]
        IN  /\ i < j /\ j < k
            /\ last.kwargs[i][1] \in DOMAIN row
            /\ last.kwargs[j][1] \notin DOMAIN row
            /\ last.kwargs[k][1] \in DOMAIN row
            /\ last.kwargs[i][1] # last.kwargs[k][1]
            /\ row[last.kwargs[i][1]] = last.kwargs[i][2]
            /\ row[last.kwargs[k][1]] = last.kwargs[k][2]

\* C30: update_expense of an existing expense with pairs of which one names
\* a computed property raises and persists none of the pairs, wherever the
\* property stands among them.
C30_ComputedPropertyFailsWhole ==
    [][(last'.op = "update_expense" /\ last'.found
            /\ Names(last'.kwargs) \cap ComputedProperties # {})
        => /\ last'.raised
           /\ last'.result = None
           /\ expenses' = expenses]_vars

\* A failed update whose computed property stood after a pair that would
\* have changed the expense
C30_Witness ==
    /\ last.op = "update_expense" /\ last.found /\ last.raised
    /\ \E i, j \in DOMAIN last.kwargs :
        /\ i < j
        /\ last.kwargs[i][1] \in DOMAIN expenses[last.id]
        /\ expenses[last.id][last.kwargs[i][1]] # last.kwargs[i][2]
        /\ last.kwargs[j][1] \in ComputedProperties

(***************************************************************************)
(* Claims about the unit of work.                                          *)
(***************************************************************************)
FailedCommit ==
    /\ last.op \in {"create_task", "update_expense",
                     "delete_relocation_profile"}
    /\ last.commit_failed

\* C22: a create, update or delete whose flush or commit fails raises to the
\* caller and leaves the four tables exactly as they were before the call.
C22_FailureRollsBack ==
    [][FailedCommit' => (last'.raised /\ store_vars' = store_vars)]_vars

\* The deletion of a profile that has tasks and expenses failed
C22_Witness ==
    /\ FailedCommit /\ last.op = "delete_relocation_profile"
    /\ \E t \in DOMAIN tasks : tasks[t].relocation_profile_id = last.id
    /\ \E e \in DOMAIN expenses : expenses[e].relocation_profile_id = last.id

\* C29: delete_task(t) of an existing task removes the task and nothing
\* else: the other tasks, the profiles and the phases are unchanged, every
\* expense still exists, the expenses that referred to t have related_task_id
\* cleared and nothing else changed, the other expenses are unchanged, and no
\* expense refers to t afterwards.
C29_DeleteTaskKeepsExpenses ==
    [][(last'.op = "delete_task" /\ last'.found) =>
        LET t == last'.id
        IN  /\ DOMAIN tasks' = DOMAIN tasks \ {t}
            /\ \A o \in DOMAIN tasks' : tasks'[o] = tasks[o]
            /\ profiles' = profiles /\ phases' = phases
            /\ DOMAIN expenses' = DOMAIN expenses
            /\ \A e \in DOMAIN expenses :
                IF expenses[e].related_task_id = Some(t)
                THEN expenses'[e] = [expenses[e] EXCEPT !.related_task_id = None]
                ELSE expenses'[e] = expenses[e]
            /\ \A e \in DOMAIN expenses' :
                expenses'[e].related_task_id # Some(t)]_vars

\* A task was deleted that a paid expense referred to; the expense is there,
\* paid, with no related task
C29_Witness ==
    /\ last.op = "delete_task" /\ last.found /\ last.id = 1
    /\ \E e \in DOMAIN expenses :
        /\ expenses[e].related_task_id = None
        /\ expenses[e].payment_status = "paid"
    /\ \A e \in DOMAIN expenses : expenses[e].related_task_id = None
    /\ \E e \in DOMAIN expenses : expenses[e].payment_status = "unpaid"

(***************************************************************************)
(* Claims about the manual entry of a rate.                                *)
(***************************************************************************)
\* The decimal strings among the inputs, with the rate each stands for
\* scaled by 10,000
ValidDecimals ==
    (<<"0", ".", "9", "2">> :> 9200) @@ (<<"2">> :> 20000)
    @@ (<<"1", ".", "2", "5", "0", "0", "9">> :> 12500)

\* Nothing typed but blanks
EmptyTyped == {<<>>, <<" ">>}

\* C23: what get_manual_exchange_rate returns tells the caller which of three
\* things happened: a valid decimal string returns the rate scaled by 10,000,
\* empty input returns the skip value (None), and non-numeric input returns
\* something that is neither a rate nor the skip value.
C23_ManualOutcomesDistinct ==
    (last.op = "enter_exchange_rate" /\ last.asked) =>
        IF last.typed \in DOMAIN ValidDecimals
        THEN last.returned = Some(ValidDecimals[last.typed])
        ELSE IF last.typed \in EmptyTyped THEN last.returned = None
        ELSE last.returned # None

(***************************************************************************)
(* Claims about the list operations.                                       *)
(***************************************************************************)
\* A row passes a filter that is omitted, or that equals the row's field
Passes(row, field, filter) == filter = None \/ row[field] = filter[1]

\* C24: a list operation returns exactly the rows whose fields equal every
\* filter value that was supplied, whatever the value (0 and the empty
\* string included); only an omitted filter does not restrict the result.
C24_ListAppliesSuppliedFilters ==
    /\ last.op = "get_all_phases" =>
            last.result = {id \in DOMAIN phases :
                Passes(phases[id], "relocation_profile_id",
                       last.relocation_profile_id)}
    /\ last.op = "get_all_tasks" =>
            last.result = {id \in DOMAIN tasks :
                /\ Passes(tasks[id], "relocation_profile_id",
                          last.relocation_profile_id)
                /\ Passes(tasks[id], "phase_id", last.phase_id)
                /\ Passes(tasks[id], "status", last.status)}
    /\ last.op = "get_all_expenses" =>
            last.result = {id \in DOMAIN expenses :
                /\ Passes(expenses[id], "relocation_profile_id",
                          last.relocation_profile_id)
                /\ Passes(expenses[id], "phase_id", last.phase_id)
                /\ Passes(expenses[id], "payment_status", last.payment_status)
                /\ Passes(expenses[id], "cost_certainty", last.cost_certainty)}

(***************************************************************************)
(* Claims about concurrent lookups.                                        *)
(***************************************************************************)
\* Both threads have returned from a lookup of the same pair that began
\* with no entry for the pair in the cache
BothMissedSamePair(a, b) ==
    /\ a # b
    /\ calls[a].pc = "done" /\ calls[b].pc = "done"
    /\ calls[a].key = calls[b].key
    /\ ~calls[a].had_entry /\ ~calls[b].had_entry

\* C25: after two overlapping lookups of one pair A != B that began with no
\* entry for the pair, if either fetched a rate then the cache holds an entry
\* for the pair, its value is the rate fetched by the call that wrote last,
\* and the date stamp is that day; if neither fetched a rate there is no
\* entry.
C25_LastWriterWins ==
    \A a, b \in Threads : BothMissedSamePair(a, b) =>
        LET key == calls[a].key
            writers == {t \in {a, b} : calls[t].wrote}
        IN  IF writers = {} THEN key \notin DOMAIN rate_cache
            ELSE /\ key \in DOMAIN rate_cache
                 /\ cache_date = Some(today)
                 /\ last.op = "store_rate" /\ last.key = key
                 /\ last.thread \in writers
                 /\ rate_cache[key] = last.rate
                 /\ calls[last.thread].result = Some(rate_cache[key])

\* Both calls missed, both fetched, the rates differ, and the cache holds the
\* later writer's
C25_Witness ==
    \E a, b \in Threads :
        /\ BothMissedSamePair(a, b)
        /\ calls[a].wrote /\ calls[b].wrote
        /\ calls[a].result # calls[b].result
        /\ last.op = "store_rate" /\ last.thread = b
        /\ rate_cache[calls[a].key] = calls[b].result[1]

====
